---------------------------- MODULE Spec2Model ----------------------------
(***************************************************************************)
(* Model of the appointment-booking receptionist in src/app.py: the slot-  *)
(* filling dialogue of handle_user_text, the time resolver, the business-  *)
(* hours test, the slot search, and the webhook routes around them with    *)
(* their per-call sessions and outbound messages.                          *)
(*                                                                         *)
(* A datetime is an integer: minutes since 2026-01-01 00:00 in the         *)
(* business time zone (+02:00).  Seconds are not modelled.  A string is a  *)
(* TLA+ string; what the code's regular expressions find in it is given by *)
(* the lexical table Tokens.  An ISO-8601 string is a record of its fields.*)
(***************************************************************************)
EXTENDS Integers, Sequences, FiniteSets, TLC

VARIABLES CONV, last, probe, CALL_SESSIONS, allowed, req, sent, loop

vars == <<CONV, last, probe, CALL_SESSIONS, allowed, req, sent, loop>>

\* the state of the routes: call sessions, entitlement, the request being served,
\* the messages sent per call, the requests accepted by the event loop
routeVars == <<CALL_SESSIONS, allowed, req, sent, loop>>

\* Python's None: for a string, for a datetime, for a dict
None == "<None>"
NoDt == <<>>
Nil == [nil |-> TRUE]

-----------------------------------------------------------------------------
(* Program constants *)

TZ_OFFSET_MIN == 120
APPT_MINUTES == 30
WORK_START_H == 9
WORK_START_M == 0
WORK_END_H == 18
WORK_END_M == 0
SLOT_STEP == 30
SCAN_STEPS == 48
EPOCH_YEAR == 2026

-----------------------------------------------------------------------------
(* Calendar arithmetic of datetime.date / datetime.datetime *)

IsLeap(y) == (y % 4 = 0) /\ ((y % 100 # 0) \/ (y % 400 = 0))

DaysInMonth(y, mo) ==
    IF mo = 2 THEN (IF IsLeap(y) THEN 29 ELSE 28)
    ELSE IF mo \in {4, 6, 9, 11} THEN 30 ELSE 31

YearDays(y) == IF IsLeap(y) THEN 366 ELSE 365

\* date(y, mo, d) raises ValueError unless this holds
DateValid(y, mo, d) ==
    /\ y >= 1 /\ y <= 9999
    /\ mo \in 1..12
    /\ d >= 1 /\ d <= DaysInMonth(y, mo)

RECURSIVE DaysBeforeYear(_)
DaysBeforeYear(y) ==
    IF y = EPOCH_YEAR THEN 0
    ELSE IF y > EPOCH_YEAR THEN DaysBeforeYear(y - 1) + YearDays(y - 1)
    ELSE DaysBeforeYear(y + 1) - YearDays(y)

RECURSIVE DaysBeforeMonth(_, _)
DaysBeforeMonth(y, mo) ==
    IF mo = 1 THEN 0 ELSE DaysBeforeMonth(y, mo - 1) + DaysInMonth(y, mo - 1)

\* day number of a valid date (0 = 2026-01-01)
DayNum(y, mo, d) == DaysBeforeYear(y) + DaysBeforeMonth(y, mo) + (d - 1)

RECURSIVE YearOfDay(_, _)
YearOfDay(n, y) ==
    IF n < DaysBeforeYear(y) THEN YearOfDay(n, y - 1)
    ELSE IF n >= DaysBeforeYear(y + 1) THEN YearOfDay(n, y + 1)
    ELSE y

RECURSIVE MonthOfDay(_, _, _)
MonthOfDay(n, y, mo) ==
    IF n - DaysBeforeYear(y) >= DaysBeforeMonth(y, mo) + DaysInMonth(y, mo)
    THEN MonthOfDay(n, y, mo + 1) ELSE mo

\* the date (year, month, day) of a day number
DateOf(n) ==
    LET y == YearOfDay(n, EPOCH_YEAR)
        mo == MonthOfDay(n, y, 1)
    IN  [y |-> y, mo |-> mo, d |-> n - DaysBeforeYear(y) - DaysBeforeMonth(y, mo) + 1]

\* date.weekday(): Monday = 0; 2026-01-01 is a Thursday
Weekday(n) == (n + 3) % 7

DayOf(dt) == dt \div 1440
MinuteOfDay(dt) == dt % 1440

\* datetime(y, mo, d, hh, mm, tzinfo=TZ)
MkDt(day, hh, mm) == day * 1440 + hh * 60 + mm

-----------------------------------------------------------------------------
(* ISO-8601 strings: datetime.isoformat / datetime.fromisoformat *)

\* An ISO string is [form, y, mo, d, hh, mm, tz, off]: form "ok" for text of the
\* shape YYYY-MM-DDTHH:MM[+HH:MM], "malformed" for any other non-empty text; tz is
\* "naive" when the text carries no offset; off is the offset in minutes ("Z" = 0).
\* Nil stands for None and for the empty string.

\* dt.isoformat() of a datetime in TZ
Isoformat(dt) ==
    LET dte == DateOf(DayOf(dt))
    IN  [form |-> "ok", y |-> dte.y, mo |-> dte.mo, d |-> dte.d,
         hh |-> MinuteOfDay(dt) \div 60, mm |-> MinuteOfDay(dt) % 60,
         tz |-> "aware", off |-> TZ_OFFSET_MIN]

\* dt.strftime("%Y-%m-%d %H:%M")
StrftimeYmdHM(dt) ==
    LET dte == DateOf(DayOf(dt))
    IN  <<dte.y, dte.mo, dte.d, MinuteOfDay(dt) \div 60, MinuteOfDay(dt) % 60>>

\* whether datetime.fromisoformat accepts the string
IsoParses(iso) ==
    /\ iso # Nil
    /\ iso.form = "ok"
    /\ DateValid(iso.y, iso.mo, iso.d)
    /\ iso.hh \in 0..23 /\ iso.mm \in 0..59

\* fromisoformat, then replace(tzinfo=TZ) for a naive value, astimezone(TZ) otherwise
IsoToLocal(iso) ==
    LET wall == MkDt(DayNum(iso.y, iso.mo, iso.d), iso.hh, iso.mm)
    IN  IF iso.tz = "naive" THEN wall ELSE wall - iso.off + TZ_OFFSET_MIN

-----------------------------------------------------------------------------
(* Texts.  A text is a string; Lex gives what the regular expressions and   *)
(* the substring tests of parse_time_text_to_dt find in its lower-cased     *)
(* form:                                                                    *)
(*   tod   first match of the time-of-day pattern, <<hh, mm>>, or <<>>      *)
(*   ymd   first match of the YYYY-M-D pattern, <<y, mo, d>>, or <<>>       *)
(*   dm    first match of the D./M[./Y] pattern, <<d, mo>> or <<d, mo, y>>  *)
(*   da2   a "day after tomorrow" keyword occurs                            *)
(*   tom   a "tomorrow" keyword occurs                                      *)
(*   inN   the "in N days" patterns (ru, en, lv in this order): <<N>>       *)
(*   wd    index of the first weekday name found, <<i>>, or <<>>            *)
(*   nxt   a "next" qualifier occurs                                        *)
(***************************************************************************)

NoLex ==
    [tod |-> <<>>, ymd |-> <<>>, dm |-> <<>>, da2 |-> FALSE, tom |-> FALSE,
     inN |-> <<>>, wd |-> <<>>, nxt |-> FALSE]

\* weekdays_en (line 397); a message names the weekday i (Monday = 0) as
\* "<qualifier><weekday> 10:00"
WeekdayNames ==
    <<"monday", "tuesday", "wednesday", "thursday", "friday", "saturday", "sunday">>

WeekdayText(q, i) == q \o WeekdayNames[i + 1] \o " 10:00"

NamesWeekday(text, q) == \E i \in 0..6 : text = WeekdayText(q, i)

WeekdayNamed(text, q) == CHOOSE i \in 0..6 : text = WeekdayText(q, i)

Lex(text) ==
    CASE text = "15:10" -> [NoLex EXCEPT !.tod = <<15, 10>>]
      [] text = "haircut 15:10 John" -> [NoLex EXCEPT !.tod = <<15, 10>>]
      [] text = "haircut 15:10" -> [NoLex EXCEPT !.tod = <<15, 10>>]
      [] text = "15:10 John" -> [NoLex EXCEPT !.tod = <<15, 10>>]
      [] text = "17:30" -> [NoLex EXCEPT !.tod = <<17, 30>>]
      [] text = "17:31" -> [NoLex EXCEPT !.tod = <<17, 31>>]
      [] text = "08:59" -> [NoLex EXCEPT !.tod = <<8, 59>>]
      [] text = "9 00" -> [NoLex EXCEPT !.tod = <<9, 0>>]
      [] text = "15.10" -> [NoLex EXCEPT !.tod = <<15, 10>>, !.dm = <<15, 10>>]
      [] text = "9.30" -> [NoLex EXCEPT !.tod = <<9, 30>>, !.dm = <<9, 30>>]
      [] text = "tomorrow 15:10" -> [NoLex EXCEPT !.tod = <<15, 10>>, !.tom = TRUE]
      [] text = "parit 10:00" ->
            [NoLex EXCEPT !.tod = <<10, 0>>, !.da2 = TRUE, !.tom = TRUE]
      [] text = "in 3 days 10:00" -> [NoLex EXCEPT !.tod = <<10, 0>>, !.inN = <<3>>]
      [] NamesWeekday(text, "") ->
            [NoLex EXCEPT !.tod = <<10, 0>>, !.wd = <<WeekdayNamed(text, "")>>]
      [] NamesWeekday(text, "on next ") ->
            [NoLex EXCEPT !.tod = <<10, 0>>, !.wd = <<WeekdayNamed(text, "on next ")>>,
                          !.nxt = TRUE]
      [] NamesWeekday(text, "next ") ->
            [NoLex EXCEPT !.tod = <<10, 0>>, !.wd = <<WeekdayNamed(text, "next ")>>]
      [] text = "2026-03-05 10:00" ->
            [NoLex EXCEPT !.tod = <<5, 10>>, !.ymd = <<2026, 3, 5>>]
      [] text = "10:00 2026-03-05" ->
            [NoLex EXCEPT !.tod = <<10, 0>>, !.ymd = <<2026, 3, 5>>]
      [] text = "2026-02-30 10:00" ->
            [NoLex EXCEPT !.tod = <<10, 0>>, !.ymd = <<2026, 2, 30>>]
      [] text = "04.03 15:10" -> [NoLex EXCEPT !.tod = <<4, 3>>, !.dm = <<4, 3>>]
      [] text = "15:10 02.03" -> [NoLex EXCEPT !.tod = <<15, 10>>, !.dm = <<2, 3>>]
      [] text = "15:10 05.03.26" ->
            [NoLex EXCEPT !.tod = <<15, 10>>, !.dm = <<5, 3, 26>>]
      [] text = "tomorrow" -> [NoLex EXCEPT !.tom = TRUE]
      [] OTHER -> NoLex

\* the text f"{a} {b}".strip(): the first match is a's when a has one
LexCat(a, b) ==
    [tod |-> IF a.tod # <<>> THEN a.tod ELSE b.tod,
     ymd |-> IF a.ymd # <<>> THEN a.ymd ELSE b.ymd,
     dm |-> IF a.dm # <<>> THEN a.dm ELSE b.dm,
     da2 |-> a.da2 \/ b.da2,
     tom |-> a.tom \/ b.tom,
     inN |-> IF a.inN # <<>> THEN a.inN ELSE b.inN,
     wd |-> IF a.wd # <<>> THEN a.wd ELSE b.wd,
     nxt |-> a.nxt \/ b.nxt]

\* `text or ''` for a text that may be None
OrEmpty(text) == IF text = None THEN "" ELSE text

-----------------------------------------------------------------------------
(* Time parsing fallback: parse_time_text_to_dt on a lexed text; today is   *)
(* today_local() as a day number.  The result is <<dt>> or NoDt.            *)

\* the date part for a D./M[./Y] match: <<day number>>, or <<>> on ValueError
DayMonthBase(dm, today) ==
    LET d == dm[1]
        mo == dm[2]
        thisYear == DateOf(today).y
    IN  IF Len(dm) = 3
        THEN LET y == IF dm[3] < 100 THEN dm[3] + 2000 ELSE dm[3]
             IN  IF DateValid(y, mo, d) THEN <<DayNum(y, mo, d)>> ELSE <<>>
        ELSE IF ~DateValid(thisYear, mo, d) THEN <<>>
        ELSE LET y == IF DayNum(thisYear, mo, d) < today THEN thisYear + 1 ELSE thisYear
             IN  IF DateValid(y, mo, d) THEN <<DayNum(y, mo, d)>> ELSE <<>>

\* the weekday branch: next occurrence strictly after today, one more week on "next"
WeekdayDelta(wd, today, nxt) ==
    LET delta0 == (wd - Weekday(today)) % 7
        delta == IF delta0 = 0 THEN 7 ELSE delta0
    IN  IF nxt THEN delta + 7 ELSE delta

\* the date part for the keyword branches (never fails)
RelativeBase(lx, today) ==
    IF lx.da2 THEN today + 2
    ELSE IF lx.tom THEN today + 1
    ELSE IF lx.inN # <<>> THEN today + lx.inN[1]
    ELSE IF lx.wd # <<>> THEN today + WeekdayDelta(lx.wd[1], today, lx.nxt)
    ELSE today

parse_time_text_to_dt(lx, today) ==
    IF lx.tod = <<>> THEN NoDt
    ELSE LET base ==
                 IF lx.ymd # <<>>
                 THEN (IF DateValid(lx.ymd[1], lx.ymd[2], lx.ymd[3])
                       THEN <<DayNum(lx.ymd[1], lx.ymd[2], lx.ymd[3])>> ELSE <<>>)
                 ELSE IF lx.dm # <<>> THEN DayMonthBase(lx.dm, today)
                 ELSE <<RelativeBase(lx, today)>>
         IN  IF base = <<>> THEN NoDt ELSE <<MkDt(base[1], lx.tod[1], lx.tod[2])>>

parse_dt_from_iso_or_fallback(datetime_iso, time_text, raw_text, today) ==
    IF IsoParses(datetime_iso) THEN <<IsoToLocal(datetime_iso)>>
    ELSE parse_time_text_to_dt(
             LexCat(Lex(OrEmpty(time_text)), Lex(OrEmpty(raw_text))), today)

-----------------------------------------------------------------------------
(* Business hours *)

InBusinessHoursStrict(dt_start, duration_min) ==
    LET day_start == MkDt(DayOf(dt_start), WORK_START_H, WORK_START_M)
        day_end == MkDt(DayOf(dt_start), WORK_END_H, WORK_END_M)
        dt_end == dt_start + duration_min
    IN  (dt_start >= day_start) /\ (dt_end < day_end)

in_business_hours(dt_start, duration_min) ==
    LET day_start == MkDt(DayOf(dt_start), WORK_START_H, WORK_START_M)
        day_end == MkDt(DayOf(dt_start), WORK_END_H, WORK_END_M)
        dt_end == dt_start + duration_min
    IN  (dt_start >= day_start) /\ (dt_end <= day_end)

-----------------------------------------------------------------------------
(* Availability oracle (Google Calendar).  What the calendar answers is the *)
(* environment's: a turn is given                                           *)
(*   svc       whether get_gcal() yields a client                           *)
(*   cal       the busy intervals <<start, end>> held by the calendar       *)
(*   failFrom  <<k>>: the free/busy queries of the turn, numbered from 0 in *)
(*             the order made, raise from the k-th on; <<>>: none raises    *)
(*   insFails  whether events().insert raises                               *)
(***************************************************************************)

FbRaises(ora, q) == ora.failFrom # <<>> /\ q >= ora.failFrom[1]

IsSlotBusyFailClosed(dt_start, dt_end, ora, q) ==
    IF ora.svc = "none" THEN TRUE
    ELSE IF FbRaises(ora, q) THEN TRUE
    ELSE \E iv \in ora.cal : iv[1] < dt_end /\ iv[2] > dt_start

\* is_slot_busy for the q-th free/busy query of the turn
is_slot_busy(dt_start, dt_end, ora, q) ==
    IF ora.svc = "none" THEN FALSE
    ELSE IF FbRaises(ora, q) THEN FALSE
    ELSE \E iv \in ora.cal : iv[1] < dt_end /\ iv[2] > dt_start

\* the loop of find_next_two_slots: i is the iteration, found the slots collected,
\* q the free/busy queries made so far; yields [found, q] when the loop ends
RECURSIVE ScanSlots(_, _, _, _, _, _)
ScanSlots(candidate, duration_min, ora, i, found, q) ==
    IF i = SCAN_STEPS THEN [found |-> <<>>, q |-> q]
    ELSE IF in_business_hours(candidate, duration_min)
         THEN IF ~is_slot_busy(candidate, candidate + duration_min, ora, q)
              THEN IF Len(found) + 1 = 2
                   THEN [found |-> Append(found, candidate), q |-> q + 1]
                   ELSE ScanSlots(candidate + SLOT_STEP, duration_min, ora, i + 1,
                                  Append(found, candidate), q + 1)
              ELSE ScanSlots(candidate + SLOT_STEP, duration_min, ora, i + 1, found, q + 1)
         ELSE ScanSlots(candidate + SLOT_STEP, duration_min, ora, i + 1, found, q)

FindNextTwoSlotsSkipFirst(dt_start, duration_min, ora, q0) ==
    ScanSlots(dt_start + SLOT_STEP, duration_min, ora, 0, <<>>, q0)

\* find_next_two_slots: found is <<opt1, opt2>>, or <<>> for None; q0 is the number
\* of queries the turn made before the search
find_next_two_slots(dt_start, duration_min, ora, q0) ==
    ScanSlots(dt_start, duration_min, ora, 0, <<>>, q0)

\* create_calendar_event: the call made, and whether an event was inserted
create_calendar_event(dt_start, duration_min, service, name, ora) ==
    [start |-> dt_start, end |-> dt_start + duration_min, service |-> service,
     name |-> name, inserted |-> (ora.svc # "none" /\ ~ora.insFails)]

-----------------------------------------------------------------------------
(* Strings of the dialogue *)

\* (s or "").strip()
Strip(s) ==
    CASE s = None -> ""
      [] s = "  " -> ""
      [] s = " 2 " -> "2"
      [] OTHER -> s

\* truth value of an optional string
Truthy(s) == s # None /\ s # ""

\* is_cyrillic; "strizhka" stands for the word written in Cyrillic letters
is_cyrillic(s) == s \in {"strizhka"}

\* "frizura" stands for the Latvian word, written with its long vowel
looks_like_lv_service_text(msg) == msg \in {"frizura"}

detect_language(text) ==
    IF text \in {"frizura"} THEN "lv"
    ELSE IF is_cyrillic(text) THEN "ru"
    ELSE "en"

get_lang(value) == IF value \in {"en", "ru", "lv"} THEN value ELSE "en"

-----------------------------------------------------------------------------
(* Conversation memory (per phone) *)

CONV_TTL_MIN == 30

\* _conv_expired, for a record last updated `gap` minutes before now
conv_expired(c, gap) == gap > CONV_TTL_MIN

NewConv(default_lang) ==
    [lang |-> get_lang(default_lang), history |-> 0, service |-> None, name |-> None,
     datetime_iso |-> Nil, time_text |-> <<>>, pending |-> Nil]

\* get_conv: the record of the identity after the call (stored is CONV[user_key],
\* Nil when the key is absent); history is the number of entries of the log
get_conv(stored, default_lang, gap) ==
    LET c == IF stored # Nil /\ ~conv_expired(stored, gap)
             THEN stored ELSE NewConv(default_lang)
    IN  IF default_lang \in {"en", "ru", "lv"}
        THEN [c EXCEPT !.lang = get_lang(default_lang)] ELSE c

-----------------------------------------------------------------------------
(* Core logic: handle_user_text.  A turn yields [c, res]: the identity's    *)
(* memory after the turn and what the turn did:                             *)
(*   status, voice, msg_key, lang   the returned dict (keys of VOICE_TEXT   *)
(*                                  and SMS_TEMPLATES stand for the texts)  *)
(*   path      "offer" when the 1/2 branch ran, "normal" otherwise          *)
(*   dt        the time resolved by this turn, <<dt>> or NoDt               *)
(*   hours     whether the turn reached its business-hours check            *)
(*   queries   the number of free/busy queries the turn made                *)
(*   created   the create_calendar_event calls of the turn, in order        *)
(***************************************************************************)

Result(status, voice, msg_key, lang, path, dt, hours, queries, created) ==
    [status |-> status, voice |-> voice, msg_key |-> msg_key, lang |-> lang,
     path |-> path, dt |-> dt, hours |-> hours, queries |-> queries,
     created |-> created]

\* `a or b` on optional strings
OrStr(a, b) == IF Truthy(a) THEN a ELSE b

\* lines 737-786: the reply 1/2 to a pending offer
OfferChoiceSwapped(c, msg, lang, ora) ==
    LET pending == c.pending
        chosen_iso == IF msg = "1" THEN pending.opt2_iso ELSE pending.opt1_iso
        dt_start == IsoToLocal(chosen_iso)
        service == OrStr(pending.service, c.service)
        name == OrStr(OrStr(pending.name, c.name), "Client")
        ev == create_calendar_event(dt_start, APPT_MINUTES, service, name, ora)
    IN  [c |-> [c EXCEPT !.pending = Nil, !.service = service, !.name = name,
                         !.datetime_iso = Isoformat(dt_start),
                         !.time_text = StrftimeYmdHM(dt_start)],
         res |-> Result("booked", "confirmed", "confirmed", lang, "offer",
                        <<dt_start>>, FALSE, 0, <<ev>>)]

OfferChoiceRechecks(c, msg, lang, ora) ==
    LET pending == c.pending
        chosen_iso == IF msg = "1" THEN pending.opt1_iso ELSE pending.opt2_iso
        dt_start == IsoToLocal(chosen_iso)
        service == OrStr(pending.service, c.service)
        name == OrStr(OrStr(pending.name, c.name), "Client")
        ev == create_calendar_event(dt_start, APPT_MINUTES, service, name, ora)
    IN  IF is_slot_busy(dt_start, dt_start + APPT_MINUTES, ora, 0)
        THEN [c |-> [c EXCEPT !.pending = Nil],
              res |-> Result("recovery", "recovery", "recovery", lang, "offer",
                             <<dt_start>>, FALSE, 1, <<>>)]
        ELSE [c |-> [c EXCEPT !.pending = Nil, !.service = service, !.name = name,
                              !.datetime_iso = Isoformat(dt_start),
                              !.time_text = StrftimeYmdHM(dt_start)],
              res |-> Result("booked", "confirmed", "confirmed", lang, "offer",
                             <<dt_start>>, FALSE, 1, <<ev>>)]

OfferChoice(c, msg, lang, ora) ==
    LET pending == c.pending
        chosen_iso == IF msg = "1" THEN pending.opt1_iso ELSE pending.opt2_iso
    IN  IF ~IsoParses(chosen_iso)
        THEN [c |-> [c EXCEPT !.pending = Nil],
              res |-> Result("need_more", "need_time", "ask_time", lang, "offer",
                             NoDt, FALSE, 0, <<>>)]
        ELSE LET dt_start == IsoToLocal(chosen_iso)
                 service == OrStr(pending.service, c.service)
                 name == OrStr(OrStr(pending.name, c.name), "Client")
                 ev == create_calendar_event(dt_start, APPT_MINUTES, service, name, ora)
             IN  [c |-> [c EXCEPT !.pending = Nil, !.service = service, !.name = name,
                                  !.datetime_iso = Isoformat(dt_start),
                                  !.time_text = StrftimeYmdHM(dt_start)],
                  res |-> Result("booked", "confirmed", "confirmed", lang, "offer",
                                 <<dt_start>>, FALSE, 0, <<ev>>)]

\* lines 819-823: the extractor's answer, all null when the call raises
NullData ==
    [service |-> None, time_text |-> None, datetime_iso |-> Nil, name |-> None,
     raises |-> FALSE]

ExtractedDataLeaks(data) == data

\* data.raises: the call raised (HTTP error, timeout, content that is not JSON);
\* the other fields are then what the answer would have carried
ExtractedData(data) == IF data.raises THEN NullData ELSE data

\* lines 831-839: service and name of the extractor's answer into the memory
MergeFieldsOverwrites(c, data, msg, lang) ==
    [c EXCEPT !.service = IF Truthy(data.service) THEN Strip(data.service) ELSE None,
              !.name = data.name]

MergeFields(c, data, msg, lang) ==
    LET stripped == IF Truthy(data.service) THEN Strip(data.service) ELSE None
        extracted_service ==
            IF lang = "lv" /\ Truthy(stripped) /\ is_cyrillic(stripped)
               /\ looks_like_lv_service_text(msg)
            THEN msg ELSE stripped
        c1 == IF Truthy(extracted_service)
              THEN [c EXCEPT !.service = extracted_service] ELSE c
    IN  IF Truthy(data.name) THEN [c1 EXCEPT !.name = data.name] ELSE c1

\* lines 844-848: the time of this turn, from this turn's message and extractor
\* output only
ResolveTurnTimeStale(c, data, msg, today) ==
    LET fresh == parse_dt_from_iso_or_fallback(data.datetime_iso, data.time_text,
                                               msg, today)
    IN  IF fresh # NoDt THEN fresh
        ELSE IF c.datetime_iso # Nil THEN <<IsoToLocal(c.datetime_iso)>> ELSE NoDt

ResolveTurnTime(c, data, msg, today) ==
    parse_dt_from_iso_or_fallback(data.datetime_iso, data.time_text, msg, today)

\* lines 851-853
StoreTimeAlways(c, dt_start) ==
    IF dt_start # NoDt
    THEN [c EXCEPT !.datetime_iso = Isoformat(dt_start[1]),
                   !.time_text = StrftimeYmdHM(dt_start[1])]
    ELSE [c EXCEPT !.datetime_iso = Nil, !.time_text = <<>>]

StoreTime(c, dt_start) ==
    IF dt_start # NoDt
    THEN [c EXCEPT !.datetime_iso = Isoformat(dt_start[1]),
                   !.time_text = StrftimeYmdHM(dt_start[1])]
    ELSE c

\* lines 921-953: book the resolved time
BookResetsMemory(c, dt_start, lang, ora, queries) ==
    LET service == c.service
        name == OrStr(c.name, "Client")
        ev == create_calendar_event(dt_start, APPT_MINUTES, service, name, ora)
    IN  [c |-> [c EXCEPT !.service = None, !.name = None],
         res |-> Result("booked", "confirmed", "confirmed", lang, "normal",
                        <<dt_start>>, TRUE, queries, <<ev>>)]

BookWithoutEvent(c, dt_start, lang, ora, queries) ==
    [c |-> c,
     res |-> Result("booked", "confirmed", "confirmed", lang, "normal",
                    <<dt_start>>, TRUE, queries, <<>>)]

BookSurfacesFailure(c, dt_start, lang, ora, queries) ==
    LET service == c.service
        name == OrStr(c.name, "Client")
        ev == create_calendar_event(dt_start, APPT_MINUTES, service, name, ora)
    IN  [c |-> c,
         res |-> IF ev.inserted
                 THEN Result("booked", "confirmed", "confirmed", lang, "normal",
                             <<dt_start>>, TRUE, queries, <<ev>>)
                 ELSE Result("recovery", "recovery", "recovery", lang, "normal",
                             <<dt_start>>, TRUE, queries, <<ev>>)]

Book(c, dt_start, lang, ora, queries) ==
    LET service == c.service
        name == OrStr(c.name, "Client")
        ev == create_calendar_event(dt_start, APPT_MINUTES, service, name, ora)
    IN  [c |-> c,
         res |-> Result("booked", "confirmed", "confirmed", lang, "normal",
                        <<dt_start>>, TRUE, queries, <<ev>>)]

\* lines 889-919: the busy check, the offer of two slots, the recovery
BusyCheckBooksAnyway(c, dt_start, lang, ora) ==
    Book(c, dt_start, lang, ora, 1)

BusyCheckOffersUnchecked(c, dt_start, lang, ora) ==
    IF is_slot_busy(dt_start, dt_start + APPT_MINUTES, ora, 0)
    THEN [c |-> [c EXCEPT !.pending =
                     [opt1_iso |-> Isoformat(dt_start + SLOT_STEP),
                      opt2_iso |-> Isoformat(dt_start + 2 * SLOT_STEP),
                      service |-> c.service, name |-> c.name]],
          res |-> Result("busy", "busy", "busy", lang, "normal",
                         <<dt_start>>, TRUE, 1, <<>>)]
    ELSE Book(c, dt_start, lang, ora, 1)

BusyCheck(c, dt_start, lang, ora) ==
    IF is_slot_busy(dt_start, dt_start + APPT_MINUTES, ora, 0)
    THEN LET opts == find_next_two_slots(dt_start, APPT_MINUTES, ora, 1)
         IN  IF opts.found # <<>>
             THEN [c |-> [c EXCEPT !.pending =
                              [opt1_iso |-> Isoformat(opts.found[1]),
                               opt2_iso |-> Isoformat(opts.found[2]),
                               service |-> c.service, name |-> c.name]],
                   res |-> Result("busy", "busy", "busy", lang, "normal",
                                  <<dt_start>>, TRUE, opts.q, <<>>)]
             ELSE [c |-> c,
                   res |-> Result("recovery", "recovery", "recovery", lang, "normal",
                                  <<dt_start>>, TRUE, opts.q, <<>>)]
    ELSE Book(c, dt_start, lang, ora, 1)

\* lines 880-887: the business-hours check, then the busy check
HoursCheckSkipped(c, dt_start, lang, ora) ==
    BusyCheck(c, dt_start, lang, ora)

HoursCheck(c, dt_start, lang, ora) ==
    IF ~in_business_hours(dt_start, APPT_MINUTES)
    THEN [c |-> c,
          res |-> Result("need_more", "outside_hours", "ask_time", lang, "normal",
                         <<dt_start>>, TRUE, 0, <<>>)]
    ELSE BusyCheck(c, dt_start, lang, ora)

\* lines 855-878: the missing fields, in the order service, time, name
AskMissingTimeFirst(c, dt_start, lang, ora) ==
    IF dt_start = NoDt
    THEN [c |-> c, res |-> Result("need_more", "need_time", "ask_time", lang,
                                  "normal", dt_start, FALSE, 0, <<>>)]
    ELSE IF ~Truthy(c.service)
    THEN [c |-> c, res |-> Result("need_more", "need_service", "ask_service", lang,
                                  "normal", dt_start, FALSE, 0, <<>>)]
    ELSE IF ~Truthy(c.name)
    THEN [c |-> c, res |-> Result("need_more", "need_name", "ask_name", lang,
                                  "normal", dt_start, FALSE, 0, <<>>)]
    ELSE HoursCheck(c, dt_start[1], lang, ora)

AskMissing(c, dt_start, lang, ora) ==
    IF ~Truthy(c.service)
    THEN [c |-> c, res |-> Result("need_more", "need_service", "ask_service", lang,
                                  "normal", dt_start, FALSE, 0, <<>>)]
    ELSE IF dt_start = NoDt
    THEN [c |-> c, res |-> Result("need_more", "need_time", "ask_time", lang,
                                  "normal", dt_start, FALSE, 0, <<>>)]
    ELSE IF ~Truthy(c.name)
    THEN [c |-> c, res |-> Result("need_more", "need_name", "ask_name", lang,
                                  "normal", dt_start, FALSE, 0, <<>>)]
    ELSE HoursCheck(c, dt_start[1], lang, ora)

\* lines 788-953: extraction, merge, time resolution, then the checks
NormalTurn(c, msg, lang_hint, data_in, ora, today) ==
    LET data == ExtractedData(data_in)
        lang == get_lang(lang_hint)
        c1 == [c EXCEPT !.lang = lang]
        c2 == MergeFields(c1, data, msg, lang)
        dt_start == ResolveTurnTime(c2, data, msg, today)
        c3 == StoreTime(c2, dt_start)
    IN  AskMissing(c3, dt_start, lang, ora)

\* whether the turn takes the 1/2 branch (line 737)
TakesOfferPath(msg, c) == msg \in {"1", "2"} /\ c.pending # Nil

\* handle_user_text(user_key, text, channel, lang_hint, raw_phone), for the memory
\* `stored` of user_key
handle_user_text(stored, text, lang_hint, data_in, ora, today, gap) ==
    LET msg == Strip(text)
        hint == IF lang_hint \notin {"en", "ru", "lv"}
                THEN detect_language(msg) ELSE lang_hint
        c0 == get_conv(stored, hint, gap)
        lang == get_lang(c0.lang)
        c == [c0 EXCEPT !.history = c0.history + 1]
    IN  IF TakesOfferPath(msg, c)
        THEN OfferChoice(c, msg, lang, ora)
        ELSE NormalTurn(c, msg, hint, data_in, ora, today)

-----------------------------------------------------------------------------
(* Per-call sessions and the messages of a call.  A session is              *)
(*   old        whether created_at lies more than SESSION_TTL_MIN back      *)
(*   lang       the language of the call, None until chosen                 *)
(*   sms_flags  the keys already sent for the call                          *)
(* and Nil stands for a call identifier absent from CALL_SESSIONS.  The     *)
(* caller field, which is written and never read, is left out.              *)
(***************************************************************************)

SESSION_TTL_MIN == 30

CallSids == {"CA1", "CA2"}

\* the keys send_sms_once_for_call is called with
SmsKeys == {"msg_need_more", "msg_booked", "msg_busy", "msg_recovery", "recovery"}

NewSession == [old |-> FALSE, lang |-> None, sms_flags |-> {}]

\* cleanup_call_sessions: the sessions created before the cutoff are dropped
cleanup_call_sessions(S) ==
    [sid \in DOMAIN S |-> IF S[sid] # Nil /\ S[sid].old THEN Nil ELSE S[sid]]

\* get_call_session: the sessions after the call; the session is at [call_sid]
get_call_session(S, call_sid) ==
    IF S[call_sid] = Nil THEN [S EXCEPT ![call_sid] = NewSession] ELSE S

\* norm_user_key
norm_user_key(phone) ==
    CASE phone = "whatsapp:+37120000001" -> "+37120000001"
      [] phone = "" -> "unknown"
      [] OTHER -> phone

\* send_sms_once_for_call: the sessions and the per-call send counts after the call
send_sms_once_for_call(S, snt, call_sid, key) ==
    LET S1 == get_call_session(S, call_sid)
    IN  IF key \in S1[call_sid].sms_flags
        THEN [S |-> S1, sent |-> snt, msgs |-> <<>>]
        ELSE [S |-> [S1 EXCEPT ![call_sid].sms_flags = @ \cup {key}],
              sent |-> [snt EXCEPT ![call_sid][key] = @ + 1],
              msgs |-> <<key>>]

\* the request being served by a route: what arrived and what was answered;
\* msgs are the keys of the messages sent while serving it
NoReq ==
    [route |-> "none", sid |-> None, from |-> None, call_status |-> None,
     gate |-> TRUE, reply |-> "none", msgs |-> <<>>]

-----------------------------------------------------------------------------
(* The state machine.  CONV is the per-phone memory.  last is the turn in  *)
(* progress: what it was given and what it did, from the moment the handler *)
(* has run until its response is returned (NoTurn between requests).  probe *)
(* holds the argument and the result of a pure function under test.         *)
(***************************************************************************)

MaxHistory == 3

Users == {"+37120000001"}

\* today_local(): 2026-03-03, a Tuesday
TODAY == DayNum(2026, 3, 3)

At(d, hh, mm) == MkDt(TODAY + d, hh, mm)

Texts == {"1", " 2 ", "hello", "15:10", "17:31"}

LangHints == {""}

\* minutes between the memory's updated_at and the turn
Gaps == {CONV_TTL_MIN, CONV_TTL_MIN + 1}

IsoToday1510 ==
    [form |-> "ok", y |-> 2026, mo |-> 3, d |-> 3, hh |-> 15, mm |-> 10,
     tz |-> "aware", off |-> 120]

IsoToday1500Z ==
    [form |-> "ok", y |-> 2026, mo |-> 3, d |-> 3, hh |-> 15, mm |-> 0,
     tz |-> "aware", off |-> 0]

IsoMalformed ==
    [form |-> "malformed", y |-> 0, mo |-> 0, d |-> 0, hh |-> 0, mm |-> 0,
     tz |-> "naive", off |-> 0]

\* answers of the field extractor
Extractions ==
    { NullData,
      [NullData EXCEPT !.raises = TRUE],
      [NullData EXCEPT !.service = "haircut", !.name = "John",
                       !.datetime_iso = IsoToday1510, !.raises = TRUE],
      [NullData EXCEPT !.service = "haircut"],
      [NullData EXCEPT !.name = "John"],
      [NullData EXCEPT !.service = "haircut", !.name = "John",
                       !.datetime_iso = IsoToday1510],
      [NullData EXCEPT !.datetime_iso = IsoToday1500Z],
      [NullData EXCEPT !.datetime_iso = IsoMalformed, !.time_text = "17:30"],
      [NullData EXCEPT !.service = "  "] }

Oracle(svc, cal, failFrom, insFails) ==
    [svc |-> svc, cal |-> cal, failFrom |-> failFrom, insFails |-> insFails]

CalFree == {}
CalOne == {<<At(0, 15, 10), At(0, 15, 40)>>}
CalFull == {<<At(0, 0, 0), At(3, 0, 0)>>}
CalAlmost == {<<At(0, 0, 0), At(1, 14, 40)>>}

\* states of the calendar service met by a turn
Oracles ==
    { Oracle("ok", CalFree, <<>>, FALSE),
      Oracle("ok", CalOne, <<>>, FALSE),
      Oracle("ok", CalFull, <<>>, FALSE),
      Oracle("ok", CalAlmost, <<>>, FALSE),
      Oracle("ok", CalOne, <<1>>, FALSE),
      Oracle("ok", CalOne, <<0>>, FALSE),
      Oracle("none", CalOne, <<>>, FALSE),
      Oracle("ok", CalFree, <<>>, TRUE) }

NoTurn ==
    [user |-> None, text |-> None, lang_hint |-> None, data |-> NullData,
     ora |-> Oracle("none", {}, <<>>, FALSE), gap |-> 0,
     res |-> Result("none", "none", "none", "en", "none", NoDt, FALSE, 0, <<>>)]

NoProbe == [fn |-> "none", start |-> 0, dur |-> 0, out |-> FALSE, done |-> FALSE]

\* the routes at rest: no call session, the client entitled, no request in
\* progress, nothing sent
RoutesIdle ==
    /\ CALL_SESSIONS = [sid \in CallSids |-> Nil]
    /\ allowed = TRUE
    /\ req = NoReq
    /\ sent = [sid \in CallSids |-> [k \in SmsKeys |-> 0]]
    /\ loop = {}

Init ==
    /\ CONV = [u \in Users |-> Nil]
    /\ last = NoTurn
    /\ probe = NoProbe
    /\ RoutesIdle

GapsFor(stored) == IF stored = Nil THEN {0} ELSE Gaps

\* one inbound turn for the identity u: the handler runs
Turn(u, text, lang_hint, data, ora, gap) ==
    /\ last = NoTurn
    /\ \E r \in {handle_user_text(CONV[u], text, lang_hint, data, ora, TODAY, gap)} :
        /\ r.c.history <= MaxHistory
        /\ CONV' = [CONV EXCEPT ![u] = r.c]
        /\ last' = [user |-> u, text |-> text, lang_hint |-> lang_hint, data |-> data,
                    ora |-> ora, gap |-> gap, res |-> r.res]
    /\ UNCHANGED <<probe, routeVars>>

\* the response of the turn is returned to the channel
Return ==
    /\ last # NoTurn
    /\ last' = NoTurn
    /\ UNCHANGED <<CONV, probe, routeVars>>

Next ==
    \/ \E u \in Users, text \in Texts, lang_hint \in LangHints, data \in Extractions,
          ora \in Oracles :
            \E gap \in GapsFor(CONV[u]) : Turn(u, text, lang_hint, data, ora, gap)
    \/ Return

Spec == Init /\ [][Next]_vars

\* ---- the dialogue with the extractor absent: openai_chat_json returns the
\* all-null record on every turn (no API key). The user may name a service or a
\* name in plain words. A turn that is enabled is eventually taken.
DegradedTexts == Texts \cup {"haircut", "John", "haircut 15:10 John"}

DegradedTurn(u, text, ora, gap) == Turn(u, text, "", NullData, ora, gap)

NextDegraded ==
    \/ \E u \in Users, text \in DegradedTexts, ora \in Oracles :
          \E gap \in GapsFor(CONV[u]) : DegradedTurn(u, text, ora, gap)
    \/ Return

SpecDegraded == Init /\ [][NextDegraded]_vars /\ WF_vars(NextDegraded)

\* ---- the dialogue of a cooperative user with a faithful extractor and a free
\* calendar. Every message states a set of fields that contains the one asked for
\* by the previous answer; the extractor returns exactly the fields stated, the
\* time as an ISO datetime, as a time text, or not at all (the handler then reads
\* it from the message); the time stated is today 15:10. The dialogue stays
\* within the TTL and ends with the booking.
MaxCoopTurns == 7

Fields == {"service", "time", "name"}

CoopText(stated) ==
    CASE stated = {} -> "hello"
      [] stated = {"service"} -> "haircut"
      [] stated = {"time"} -> "15:10"
      [] stated = {"name"} -> "John"
      [] stated = {"service", "time"} -> "haircut 15:10"
      [] stated = {"service", "name"} -> "haircut John"
      [] stated = {"time", "name"} -> "15:10 John"
      [] OTHER -> "haircut 15:10 John"

CoopData(stated, how) ==
    [service |-> IF "service" \in stated THEN "haircut" ELSE None,
     name |-> IF "name" \in stated THEN "John" ELSE None,
     datetime_iso |-> IF "time" \in stated /\ how = "iso" THEN IsoToday1510 ELSE Nil,
     time_text |-> IF "time" \in stated /\ how = "text" THEN "15:10" ELSE None,
     raises |-> FALSE]

Asked(msg_key) ==
    CASE msg_key = "ask_service" -> "service"
      [] msg_key = "ask_time" -> "time"
      [] msg_key = "ask_name" -> "name"
      [] OTHER -> "nothing"

FreeOracles == {ora \in Oracles : ora.cal = CalFree \/ ora.svc = "none"}

CoopTurn(u, stated, how, ora) ==
    /\ last.res.status # "booked"
    /\ last # NoTurn => Asked(last.res.msg_key) \in stated
    /\ CONV[u] # Nil => CONV[u].history < MaxCoopTurns
    /\ \E gap \in GapsFor(CONV[u]) \ {CONV_TTL_MIN + 1} :
         \E r \in {handle_user_text(CONV[u], CoopText(stated), "", CoopData(stated, how),
                                    ora, TODAY, gap)} :
            /\ CONV' = [CONV EXCEPT ![u] = r.c]
            /\ last' = [user |-> u, text |-> CoopText(stated), lang_hint |-> "",
                        data |-> CoopData(stated, how), ora |-> ora, gap |-> gap,
                        res |-> r.res]
    /\ UNCHANGED <<probe, routeVars>>

NextConverge ==
    \E u \in Users, stated \in SUBSET Fields, how \in {"iso", "text", "none"},
       ora \in FreeOracles : CoopTurn(u, stated, how, ora)

SpecConverge == Init /\ [][NextConverge]_vars

-----------------------------------------------------------------------------
(* in_business_hours as a pure function: the argument is drawn at the start *)
(* and the function is applied to it.                                       *)

MaxProbeDay == 1

ProbeMinutes == {0, 8 * 60 + 59, 9 * 60, 9 * 60 + 1, 17 * 60 + 29, 17 * 60 + 30,
                 17 * 60 + 31, 18 * 60, 23 * 60 + 59}

ProbeDurations == {15, 30, 31, 60}

InitHours ==
    /\ CONV = [u \in Users |-> Nil]
    /\ last = NoTurn
    /\ probe \in {[fn |-> "in_business_hours", start |-> At(d, 0, 0) + m, dur |-> dur,
                   out |-> FALSE, done |-> FALSE] :
                      d \in 0..MaxProbeDay, m \in ProbeMinutes, dur \in ProbeDurations}
    /\ RoutesIdle

ApplyHours ==
    /\ probe.fn = "in_business_hours" /\ ~probe.done
    /\ probe' = [probe EXCEPT !.out = in_business_hours(probe.start, probe.dur),
                              !.done = TRUE]
    /\ UNCHANGED <<CONV, last, routeVars>>

NextHours == ApplyHours

SpecHours == InitHours /\ [][NextHours]_vars

\* ---- parse_dt_from_iso_or_fallback applied once to a message, with no usable
\* ISO suggestion and no time text from the extractor, on a reference date
MaxRefShift == 6

RefDays == {TODAY + k : k \in 0..MaxRefShift}

TimeOnlyTexts == {"15:10", "08:59", "9 00", "15.10", "9.30"}

NoTimeTexts == {"hello", "tomorrow", "24:00", "haircut"}

NextQualifiers == {"next ", "on next "}

WeekdayTexts == {WeekdayText(q, i) : q \in {""} \cup NextQualifiers, i \in 0..6}

ResolveTexts ==
    TimeOnlyTexts \cup NoTimeTexts \cup WeekdayTexts
        \cup {"tomorrow 15:10", "2026-03-05 10:00", "15:10 02.03"}

InitResolve ==
    /\ CONV = [u \in Users |-> Nil]
    /\ last = NoTurn
    /\ probe \in {[fn |-> "resolve", text |-> text, today |-> today, iso |-> iso,
                   out |-> NoDt, done |-> FALSE] :
                      text \in ResolveTexts, today \in RefDays,
                      iso \in {Nil, IsoMalformed}}
    /\ RoutesIdle

ApplyResolve ==
    /\ probe.fn = "resolve" /\ ~probe.done
    /\ probe' = [probe EXCEPT
                    !.out = parse_dt_from_iso_or_fallback(probe.iso, None, probe.text,
                                                          probe.today),
                    !.done = TRUE]
    /\ UNCHANGED <<CONV, last, routeVars>>

NextResolve == ApplyResolve

SpecResolve == InitResolve /\ [][NextResolve]_vars

-----------------------------------------------------------------------------
(* find_next_two_slots as a pure function of the start, the duration and    *)
(* the calendar: the search is run twice on the same arguments.             *)

SlotStarts ==
    {At(0, 8, 0), At(0, 9, 0), At(0, 15, 10), At(0, 17, 0), At(0, 17, 30),
     At(0, 17, 31), At(0, 23, 45)}

SlotDurations == {APPT_MINUTES, 2 * APPT_MINUTES}

SlotOracles ==
    { Oracle("ok", CalFree, <<>>, FALSE),
      Oracle("ok", CalOne, <<>>, FALSE),
      Oracle("ok", CalFull, <<>>, FALSE),
      Oracle("ok", CalAlmost, <<>>, FALSE),
      Oracle("ok", CalOne \cup CalAlmost, <<>>, FALSE),
      Oracle("none", CalOne, <<>>, FALSE) }

InitSlots ==
    /\ CONV = [u \in Users |-> Nil]
    /\ last = NoTurn
    /\ probe \in {[fn |-> "find_next_two_slots", start |-> st, dur |-> dur, ora |-> ora,
                   out |-> <<>>, out2 |-> <<>>, calls |-> 0] :
                      st \in SlotStarts, dur \in SlotDurations, ora \in SlotOracles}
    /\ RoutesIdle

\* the first run of the search
ApplySlots ==
    /\ probe.fn = "find_next_two_slots" /\ probe.calls = 0
    /\ probe' = [probe EXCEPT
                    !.out = find_next_two_slots(probe.start, probe.dur, probe.ora, 0).found,
                    !.calls = 1]
    /\ UNCHANGED <<CONV, last, routeVars>>

\* the second run, on the same arguments
ApplySlotsAgain ==
    /\ probe.fn = "find_next_two_slots" /\ probe.calls = 1
    /\ probe' = [probe EXCEPT
                    !.out2 = find_next_two_slots(probe.start, probe.dur, probe.ora, 0).found,
                    !.calls = 2]
    /\ UNCHANGED <<CONV, last, routeVars>>

NextSlots == ApplySlots \/ ApplySlotsAgain

SpecSlots == InitSlots /\ [][NextSlots]_vars

-----------------------------------------------------------------------------
(* The webhook routes.  A route serves one request at a time: the request   *)
(* is held in req (and the turn of handle_user_text it ran, if any, in last) *)
(* until the response is returned.                                          *)
(***************************************************************************)

MaxSent == 2

\* the number of messages sent for the calls so far
RECURSIVE SentCount(_, _)
SentCount(snt, pairs) ==
    IF pairs = {} THEN 0
    ELSE LET p == CHOOSE x \in pairs : TRUE
         IN  snt[p[1]][p[2]] + SentCount(snt, pairs \ {p})

SentTotal(snt) == SentCount(snt, CallSids \X SmsKeys)

\* the call whose requests are followed; the other call identifiers only arrive
FollowedCall == "CA1"

RoutePhone == "+37120000001"

RouteTexts == {"1", "15:10", "strizhka"}

RouteDigits == {""}

RouteExtractions ==
    { NullData,
      [NullData EXCEPT !.service = "haircut", !.name = "John",
                       !.datetime_iso = IsoToday1510] }

RouteOracles == { Oracle("ok", CalFree, <<>>, FALSE) }

CallStatuses == {"completed", "in-progress"}

TerminalStatuses == {"completed", "busy", "failed", "no-answer", "canceled"}

\* f"msg_{result.get('status','x')}"
MsgKey(status) ==
    CASE status = "need_more" -> "msg_need_more"
      [] status = "booked" -> "msg_booked"
      [] status = "busy" -> "msg_busy"
      [] OTHER -> "msg_recovery"

\* client_allowed() at the start: CLIENT_STATUS inactive, or not
InitRoutes ==
    /\ CONV = [u \in Users |-> Nil]
    /\ last = NoTurn
    /\ probe = NoProbe
    /\ CALL_SESSIONS = [sid \in CallSids |-> Nil]
    /\ allowed \in BOOLEAN
    /\ req = NoReq
    /\ sent = [sid \in CallSids |-> [k \in SmsKeys |-> 0]]
    /\ loop = {}

TurnOf(u, text, lang_hint, data, ora, gap, res) ==
    [user |-> u, text |-> text, lang_hint |-> lang_hint, data |-> data,
     ora |-> ora, gap |-> gap, res |-> res]

ReqOf(route, sid, from, call_status, reply, msgs) ==
    [route |-> route, sid |-> sid, from |-> from, call_status |-> call_status,
     gate |-> allowed, reply |-> reply, msgs |-> msgs]

\* POST /voice/incoming
voice_incoming(call_sid, caller) ==
    /\ req = NoReq
    /\ LET S1 == cleanup_call_sessions(CALL_SESSIONS)
           S2 == get_call_session(S1, call_sid)
           user_key == norm_user_key(caller)
       IN  /\ CALL_SESSIONS' = S2
           /\ IF ~allowed
              THEN /\ req' = ReqOf("voice_incoming", call_sid, caller, None,
                                   "not_available", <<>>)
                   /\ UNCHANGED CONV
              ELSE /\ req' = ReqOf("voice_incoming", call_sid, caller, None,
                                   "greeting", <<>>)
                   /\ CONV' = IF user_key # "unknown"
                              THEN [CONV EXCEPT ![user_key] = Nil] ELSE CONV
    /\ UNCHANGED <<last, probe, allowed, sent, loop>>

\* POST /voice/intent
voice_intent(call_sid, caller, speech, digits, data, ora, gap) ==
    /\ req = NoReq
    /\ LET S1 == get_call_session(CALL_SESSIONS, call_sid)
           user_key == norm_user_key(caller)
       IN  IF ~allowed
           THEN /\ CALL_SESSIONS' = S1
                /\ req' = ReqOf("voice_intent", call_sid, caller, None,
                                "not_available", <<>>)
                /\ UNCHANGED <<CONV, last, sent>>
           ELSE LET chosen == CASE digits = "1" -> "en"
                                [] digits = "2" -> "ru"
                                [] digits = "3" -> "lv"
                                [] OTHER -> S1[call_sid].lang
                    cs_lang == IF Truthy(chosen) THEN chosen ELSE detect_language(speech)
                    lang == get_lang(cs_lang)
                IN  \E r \in {handle_user_text(CONV[user_key], speech, lang, data, ora,
                                               TODAY, gap)} :
                      LET S2 == [S1 EXCEPT ![call_sid].lang = get_lang(r.res.lang)]
                          snd == IF caller # "" /\ caller # "unknown"
                                 THEN send_sms_once_for_call(S2, sent, call_sid,
                                                             MsgKey(r.res.status))
                                 ELSE [S |-> S2, sent |-> sent, msgs |-> <<>>]
                      IN  /\ r.c.history <= MaxHistory
                          /\ SentTotal(snd.sent) <= MaxSent
                          /\ CONV' = [CONV EXCEPT ![user_key] = r.c]
                          /\ last' = TurnOf(user_key, speech, lang, data, ora, gap, r.res)
                          /\ CALL_SESSIONS' = snd.S
                          /\ sent' = snd.sent
                          /\ req' = ReqOf("voice_intent", call_sid, caller, None,
                                          r.res.voice, snd.msgs)
    /\ UNCHANGED <<probe, allowed, loop>>

\* POST /voice/status
voice_status(call_sid, caller, call_status) ==
    /\ req = NoReq
    /\ LET S1 == get_call_session(CALL_SESSIONS, call_sid)
           user_key == norm_user_key(caller)
           c == CONV[user_key]
           snd == IF /\ call_status \in TerminalStatuses
                     /\ caller # "" /\ caller # "unknown"
                     /\ ~(c # Nil /\ c.datetime_iso # Nil)
                  THEN send_sms_once_for_call(S1, sent, call_sid, "recovery")
                  ELSE [S |-> S1, sent |-> sent, msgs |-> <<>>]
       IN  /\ SentTotal(snd.sent) <= MaxSent
           /\ CALL_SESSIONS' = snd.S
           /\ sent' = snd.sent
           /\ req' = ReqOf("voice_status", call_sid, caller, call_status, "204", snd.msgs)
    /\ UNCHANGED <<CONV, last, probe, allowed, loop>>

\* the body shared by POST /sms/incoming and POST /whatsapp/incoming
MessageIncoming(route, from_number, body_in, data, ora, gap) ==
    /\ req = NoReq
    /\ IF ~allowed
       THEN /\ req' = ReqOf(route, None, from_number, None, "204", <<"not_available">>)
            /\ UNCHANGED <<CONV, last>>
       ELSE LET user_key == norm_user_key(from_number)
                lang_hint == detect_language(body_in)
            IN  \E r \in {handle_user_text(CONV[user_key], body_in, lang_hint, data, ora,
                                           TODAY, gap)} :
                  /\ r.c.history <= MaxHistory
                  /\ CONV' = [CONV EXCEPT ![user_key] = r.c]
                  /\ last' = TurnOf(user_key, body_in, lang_hint, data, ora, gap, r.res)
                  /\ req' = ReqOf(route, None, from_number, None, "204", <<r.res.msg_key>>)
    /\ UNCHANGED <<probe, CALL_SESSIONS, allowed, sent, loop>>

\* POST /sms/incoming
sms_incoming(from_number, body_in, data, ora, gap) ==
    MessageIncoming("sms_incoming", from_number, body_in, data, ora, gap)

\* POST /whatsapp/incoming
whatsapp_incoming(from_number, body_in, data, ora, gap) ==
    MessageIncoming("whatsapp_incoming", from_number, body_in, data, ora, gap)

\* the response of the request is returned
Respond ==
    /\ req # NoReq
    /\ req' = NoReq
    /\ last' = NoTurn
    /\ UNCHANGED <<CONV, probe, CALL_SESSIONS, allowed, sent, loop>>

\* time passes: every session's created_at falls behind the cleanup cutoff
SessionsAge ==
    /\ req = NoReq
    /\ \E sid \in CallSids : CALL_SESSIONS[sid] # Nil /\ ~CALL_SESSIONS[sid].old
    /\ CALL_SESSIONS' = [sid \in CallSids |->
                           IF CALL_SESSIONS[sid] = Nil THEN Nil
                           ELSE [CALL_SESSIONS[sid] EXCEPT !.old = TRUE]]
    /\ UNCHANGED <<CONV, last, probe, allowed, req, sent, loop>>

\* time passes: the trial ends (client_allowed turns false)
TrialExpires ==
    /\ req = NoReq
    /\ allowed
    /\ allowed' = FALSE
    /\ UNCHANGED <<CONV, last, probe, CALL_SESSIONS, req, sent, loop>>

NextRoutes ==
    \/ \E sid \in CallSids : voice_incoming(sid, RoutePhone)
    \/ \E speech \in RouteTexts, digits \in RouteDigits,
          data \in RouteExtractions, ora \in RouteOracles :
            \E gap \in GapsFor(CONV[RoutePhone]) :
                voice_intent(FollowedCall, RoutePhone, speech, digits, data, ora, gap)
    \/ \E call_status \in CallStatuses :
            voice_status(FollowedCall, RoutePhone, call_status)
    \/ \E body_in \in RouteTexts, data \in RouteExtractions, ora \in RouteOracles :
            \E gap \in GapsFor(CONV[RoutePhone]) :
                sms_incoming(RoutePhone, body_in, data, ora, gap)
    \/ \E body_in \in RouteTexts, data \in RouteExtractions, ora \in RouteOracles :
            \E gap \in GapsFor(CONV[RoutePhone]) :
                whatsapp_incoming("whatsapp:+37120000001", body_in, data, ora, gap)
    \/ Respond
    \/ SessionsAge
    \/ TrialExpires

SpecRoutes == InitRoutes /\ [][NextRoutes]_vars

-----------------------------------------------------------------------------
(* The event loop.  Every route is a coroutine (async def) whose only await *)
(* is the reading of the form; the rest of its body, with the blocking      *)
(* calls to the extractor and the calendar, runs on the loop's one thread.  *)
(* loop[id] is a request from its arrival to its response:                  *)
(*   idle      not yet arrived                                              *)
(*   accepted  the coroutine is suspended at `await request.form()`         *)
(*   running   the body has read the identity's memory (seen) and waits in  *)
(*             a blocking external call                                     *)
(*   done      the body has written the memory and returned res             *)
(***************************************************************************)

LoopIds == {1, 2}

LoopUsers == {"+37120000001", "+37120000002"}

LoopTexts == {"1", "hello"}

LoopExtractions ==
    { NullData,
      [NullData EXCEPT !.service = "haircut", !.name = "John",
                       !.datetime_iso = IsoToday1510] }

LoopOracle == Oracle("ok", CalFree, <<>>, FALSE)

\* the memory of an identity that has been offered 15:40 and 16:10
ConvWithOffer ==
    handle_user_text(Nil, "hello", "",
                     [NullData EXCEPT !.service = "haircut", !.name = "John",
                                      !.datetime_iso = IsoToday1510],
                     Oracle("ok", CalOne, <<>>, FALSE), TODAY, 0).c

IdleRequest ==
    [phase |-> "idle", user |-> None, text |-> None, data |-> NullData, seen |-> Nil,
     res |-> Result("none", "none", "none", "en", "none", NoDt, FALSE, 0, <<>>)]

InitLoop ==
    /\ CONV \in [LoopUsers -> {Nil, ConvWithOffer}]
    /\ last = NoTurn
    /\ probe = NoProbe
    /\ CALL_SESSIONS = [sid \in CallSids |-> Nil]
    /\ allowed = TRUE
    /\ req = NoReq
    /\ sent = [sid \in CallSids |-> [k \in SmsKeys |-> 0]]
    /\ loop = [id \in LoopIds |-> IdleRequest]

\* the loop's thread is free: no body is in a blocking call
LoopFreeAlways == TRUE

LoopFree == \A id \in LoopIds : loop[id].phase # "running"

\* a message arrives at /sms/incoming: its coroutine starts and awaits the form
Accept(id, u, text, data) ==
    /\ loop[id].phase = "idle"
    /\ loop' = [loop EXCEPT ![id] = [IdleRequest EXCEPT !.phase = "accepted", !.user = u,
                                                      !.text = text, !.data = data]]
    /\ UNCHANGED <<CONV, last, probe, CALL_SESSIONS, allowed, req, sent>>

\* the loop resumes the coroutine: the body reads the memory of the identity and
\* enters its blocking external call
StartBody(id) ==
    /\ loop[id].phase = "accepted"
    /\ LoopFree
    /\ loop' = [loop EXCEPT ![id].phase = "running", ![id].seen = CONV[loop[id].user]]
    /\ UNCHANGED <<CONV, last, probe, CALL_SESSIONS, allowed, req, sent>>

\* the external calls return: the body writes the memory and responds
FinishBody(id) ==
    /\ loop[id].phase = "running"
    /\ LET q == loop[id]
       IN  \E r \in {handle_user_text(q.seen, q.text, detect_language(q.text), q.data,
                                      LoopOracle, TODAY,
                                      IF q.seen = Nil THEN 0 ELSE CONV_TTL_MIN)} :
             /\ CONV' = [CONV EXCEPT ![q.user] = r.c]
             /\ loop' = [loop EXCEPT ![id].phase = "done", ![id].res = r.res]
    /\ UNCHANGED <<last, probe, CALL_SESSIONS, allowed, req, sent>>

NextLoop ==
    \/ \E id \in LoopIds, u \in LoopUsers, text \in LoopTexts, data \in LoopExtractions :
            Accept(id, u, text, data)
    \/ \E id \in LoopIds : StartBody(id)
    \/ \E id \in LoopIds : FinishBody(id)

SpecLoop == InitLoop /\ [][NextLoop]_vars

\* ---- turns of several identities beside call sessions. A message arrives with
\* the phone as the channel presents it; its key is norm_user_key(phone). CONV is
\* the whole dictionary, one entry per key, Nil for an absent key; the call
\* sessions are as the voice routes may have left them.
MaxFrameTurns == 2

FramePhones == {"+37120000001", "whatsapp:+37120000001", "+37120000002", ""}

FrameUsers == {norm_user_key(phone) : phone \in FramePhones}

FrameTexts == {"1", "15:10"}

FrameExtractions ==
    { NullData,
      [NullData EXCEPT !.service = "haircut", !.name = "John",
                       !.datetime_iso = IsoToday1510] }

FrameOracles == {Oracle("ok", CalFree, <<>>, FALSE), Oracle("ok", CalOne, <<>>, FALSE)}

FrameSessions ==
    { [sid \in CallSids |-> Nil],
      [sid \in CallSids |->
          IF sid = "CA1"
          THEN [NewSession EXCEPT !.lang = "ru", !.sms_flags = {"msg_busy"}]
          ELSE NewSession] }

\* the dictionary after get_conv and the handler have written the record of
\* user_key (CONV.pop(user_key), CONV[user_key] = c, and the updates of c in place)
StoreConvUnderUnknown(D, user_key, c) == [D EXCEPT !["unknown"] = c]

StoreConv(D, user_key, c) == [D EXCEPT ![user_key] = c]

InitFrame ==
    /\ CONV = [u \in FrameUsers |-> Nil]
    /\ last = NoTurn
    /\ probe = NoProbe
    /\ CALL_SESSIONS \in FrameSessions
    /\ allowed = TRUE
    /\ req = NoReq
    /\ sent = [sid \in CallSids |-> [k \in SmsKeys |-> 0]]
    /\ loop = {}

FrameTurn(phone, text, data, ora, gap) ==
    /\ last = NoTurn
    /\ \E user_key \in {norm_user_key(phone)} :
         \E r \in {handle_user_text(CONV[user_key], text, "", data, ora, TODAY, gap)} :
            /\ r.c.history <= MaxFrameTurns
            /\ CONV' = StoreConv(CONV, user_key, r.c)
            /\ last' = TurnOf(user_key, text, "", data, ora, gap, r.res)
    /\ UNCHANGED <<probe, routeVars>>

NextFrame ==
    \/ \E phone \in FramePhones, text \in FrameTexts, data \in FrameExtractions,
          ora \in FrameOracles :
            \E gap \in GapsFor(CONV[norm_user_key(phone)]) :
                FrameTurn(phone, text, data, ora, gap)
    \/ Return

SpecFrame == InitFrame /\ [][NextFrame]_vars

-----------------------------------------------------------------------------
(* Vocabulary of the properties *)

\* a step in which the handler runs
TurnStep == last = NoTurn /\ last' # NoTurn

\* the memory a turn finds for u: Nil when there is none or when it has expired
LivePre(u, gap) ==
    IF CONV[u] = Nil \/ gap > CONV_TTL_MIN THEN Nil ELSE CONV[u]

\* the utterance of the turn, stripped
Said(t) == Strip(t.text)

\* the time this turn's own inputs resolve to
FreshTime(t) ==
    IF t.data.raises THEN parse_time_text_to_dt(Lex(Said(t)), TODAY)
    ELSE parse_dt_from_iso_or_fallback(t.data.datetime_iso, t.data.time_text,
                                       Said(t), TODAY)

\* start .. start + dur lies within 09:00-18:00 of the day of start
WithinHours(start, dur) ==
    LET m == start % 1440
    IN  m >= 9 * 60 /\ m + dur <= 18 * 60

\* the turn's utterance carries no time-of-day pattern
NoTimeSaid(t) == Lex(Said(t)).tod = <<>>

\* the extractor's answer carries neither datetime_iso nor time_text
NoTimeExtracted(t) ==
    t.data.raises \/ (t.data.datetime_iso = Nil /\ t.data.time_text = None)

\* nothing the turn was given resolves to a time
NoTimeGiven(t) ==
    /\ NoTimeSaid(t)
    /\ \/ t.data.raises
       \/ /\ ~IsoParses(t.data.datetime_iso)
          /\ Lex(OrEmpty(t.data.time_text)).tod = <<>>

-----------------------------------------------------------------------------
\* C1: a turn outside the offer branch asks for at most one field, the first
\* missing one in the order service, time, name: service unknown => the service
\* is asked; the time is asked only with a service known; the name only with
\* service and time present; the hours check only with all three present.
C1_SingleQuestionInOrder ==
    (last # NoTurn /\ last.res.path = "normal") =>
        LET c == CONV[last.user]
            r == last.res
            hasService == Truthy(c.service)
            hasTime == r.dt # NoDt
            hasName == Truthy(c.name)
        IN  /\ ~hasService => (r.msg_key = "ask_service" /\ r.voice = "need_service")
            /\ (hasService /\ ~hasTime) => (r.msg_key = "ask_time" /\ r.voice = "need_time")
            /\ (hasService /\ hasTime /\ ~hasName) =>
                   (r.msg_key = "ask_name" /\ r.voice = "need_name")
            /\ r.msg_key = "ask_time" => hasService
            /\ r.msg_key = "ask_name" => (hasService /\ hasTime)
            /\ r.hours <=> (hasService /\ hasTime /\ hasName)
            /\ r.msg_key \in {"ask_service", "ask_time", "ask_name"} =>
                   (r.status = "need_more" /\ r.queries = 0 /\ r.created = <<>>)

\* several fields are missing and the service is the one asked
C1_Witness ==
    /\ last # NoTurn /\ last.res.path = "normal"
    /\ ~Truthy(CONV[last.user].service) /\ ~Truthy(CONV[last.user].name)
    /\ last.res.dt # NoDt
    /\ last.res.msg_key = "ask_service"

\* C2: with a pending offer and the utterance exactly "1" or "2", the turn books
\* the corresponding offered slot: the event is created for it, it becomes the
\* stored time, the offer is cleared and the status is booked.
C2_OfferChoiceBooksChosenSlot ==
    [][ \A u \in Users :
          (TurnStep /\ last'.user = u /\ LivePre(u, last'.gap) # Nil
             /\ LivePre(u, last'.gap).pending # Nil /\ Said(last') \in {"1", "2"}) =>
            LET offer == CONV[u].pending
                chosen == IF Said(last') = "1" THEN offer.opt1_iso ELSE offer.opt2_iso
                r == last'.res
            IN  /\ r.status = "booked"
                /\ Len(r.created) = 1
                /\ Isoformat(r.created[1].start) = chosen
                /\ r.created[1].end = r.created[1].start + APPT_MINUTES
                /\ CONV'[u].datetime_iso = chosen
                /\ CONV'[u].pending = Nil ]_vars

\* the second option of an offer has been chosen and booked
C2_Witness ==
    /\ last # NoTurn /\ last.res.path = "offer" /\ Said(last) = "2"
    /\ last.res.status = "booked"
    /\ CONV[last.user].pending = Nil

\* C3: service, time and name present, time within hours, requested interval
\* reported busy: alternatives found => they are stored as the pending offer,
\* status busy, no event; none found => status recovery, no pending offer stored,
\* no event.
C3_BusySlotOffersOrRecovers ==
    [][ \A u \in Users :
          (TurnStep /\ last'.user = u /\ last'.res.path = "normal" /\ last'.res.hours
             /\ in_business_hours(last'.res.dt[1], APPT_MINUTES)
             /\ is_slot_busy(last'.res.dt[1], last'.res.dt[1] + APPT_MINUTES,
                             last'.ora, 0)) =>
            LET r == last'.res
                opts == find_next_two_slots(r.dt[1], APPT_MINUTES, last'.ora, 1).found
                before == LivePre(u, last'.gap)
            IN  /\ r.created = <<>>
                /\ opts # <<>> =>
                     /\ r.status = "busy"
                     /\ CONV'[u].pending # Nil
                     /\ CONV'[u].pending.opt1_iso = Isoformat(opts[1])
                     /\ CONV'[u].pending.opt2_iso = Isoformat(opts[2])
                /\ opts = <<>> =>
                     /\ r.status = "recovery"
                     /\ CONV'[u].pending = (IF before = Nil THEN Nil ELSE before.pending) ]_vars

\* a busy slot with no two alternatives within the scan ends in recovery
C3_Witness ==
    /\ last # NoTurn /\ last.res.status = "recovery"
    /\ last.res.queries > 1
    /\ last.res.created = <<>>

\* C4: the reply "1" or "2" with no pending offer never books: no event is
\* created and the status is not booked.
C4_ReplyWithoutOfferNeverBooks ==
    (last # NoTurn /\ Said(last) \in {"1", "2"} /\ last.res.path = "normal") =>
        (last.res.created = <<>> /\ last.res.status # "booked")

\* C5: a turn whose utterance carries a time-of-day pattern clears the pending
\* offer it finds, unless the turn itself creates a new one.
C5_TimeUtteranceClearsOffer ==
    [][ \A u \in Users :
          (TurnStep /\ last'.user = u /\ LivePre(u, last'.gap) # Nil
             /\ LivePre(u, last'.gap).pending # Nil /\ ~NoTimeSaid(last')) =>
            (CONV'[u].pending = Nil \/ last'.res.status = "busy") ]_vars

\* C6: after a turn whose status is booked the identity holds no pending offer.
C6_BookedLeavesNoOffer ==
    (last # NoTurn /\ last.res.status = "booked") => CONV[last.user].pending = Nil

\* C7: the normal path checks and books only a time resolved from this turn's
\* utterance or extractor output; a turn given no time makes no hours check, no
\* query and no booking and asks for the time when the service is known, whatever
\* time the memory stores.
C7_OnlyFreshTimeIsUsed ==
    (last # NoTurn /\ last.res.path = "normal") =>
        LET r == last.res
            c == CONV[last.user]
        IN  /\ NoTimeGiven(last) =>
                 /\ r.dt = NoDt /\ ~r.hours /\ r.queries = 0 /\ r.created = <<>>
                 /\ Truthy(c.service) => r.msg_key = "ask_time"
            /\ (r.hours \/ r.queries > 0 \/ r.created # <<>>) =>
                 /\ ~NoTimeGiven(last)
                 /\ r.dt = FreshTime(last)
                 /\ \A i \in 1..Len(r.created) : r.created[i].start = FreshTime(last)[1]

\* the memory stores a time, service and name, and the turn, given no time, asks
\* for the time
C7_Witness ==
    /\ last # NoTurn /\ last.res.path = "normal" /\ NoTimeGiven(last)
    /\ CONV[last.user].datetime_iso # Nil
    /\ Truthy(CONV[last.user].service) /\ Truthy(CONV[last.user].name)
    /\ last.res.msg_key = "ask_time"

\* C8: for an unexpired memory holding a resolved time, a turn that reaches the
\* extractor, whose utterance has no time-of-day pattern and whose extractor output
\* has no datetime_iso and no time_text, leaves the stored time and time text as
\* they were; a turn whose fresh resolution succeeds overwrites both with the new
\* value.
C8_NormalTurnKeepsOrOverwritesStoredTime ==
    [][ \A u \in Users :
          (TurnStep /\ last'.user = u /\ last'.res.path = "normal") =>
            /\ (LivePre(u, last'.gap) # Nil /\ LivePre(u, last'.gap).datetime_iso # Nil
                  /\ NoTimeSaid(last') /\ NoTimeExtracted(last')) =>
                 /\ CONV'[u].datetime_iso = CONV[u].datetime_iso
                 /\ CONV'[u].time_text = CONV[u].time_text
            /\ FreshTime(last') # NoDt =>
                 /\ CONV'[u].datetime_iso = Isoformat(FreshTime(last')[1])
                 /\ IsoToLocal(CONV'[u].datetime_iso) = FreshTime(last')[1]
                 /\ CONV'[u].time_text = StrftimeYmdHM(FreshTime(last')[1]) ]_vars

\* a normal turn given no time has run on a live memory that stores a time
C8_Witness ==
    /\ last # NoTurn /\ last.res.path = "normal"
    /\ NoTimeSaid(last) /\ NoTimeExtracted(last)
    /\ last.gap <= CONV_TTL_MIN
    /\ CONV[last.user].datetime_iso # Nil
    /\ last.res.dt = NoDt

\* C9: in_business_hours(start, duration) holds exactly when start is at or
\* after 09:00 and start + duration at or before 18:00 of start's own date; with
\* duration 30: 17:30 and 09:00 are accepted, 17:31 and 08:59 rejected.
C9_BusinessHoursBoundary ==
    probe.done =>
        /\ probe.out <=> WithinHours(probe.start, probe.dur)
        /\ (probe.dur = 30 /\ probe.start % 1440 = 17 * 60 + 30) => probe.out
        /\ (probe.dur = 30 /\ probe.start % 1440 = 17 * 60 + 31) => ~probe.out
        /\ (probe.dur = 30 /\ probe.start % 1440 = 9 * 60) => probe.out
        /\ (probe.dur = 30 /\ probe.start % 1440 = 8 * 60 + 59) => ~probe.out

\* 17:30 for 30 minutes has been tested and accepted
C9_Witness ==
    /\ probe.done /\ probe.dur = 30 /\ probe.start = At(0, 17, 30)
    /\ probe.out

\* C10: a turn with service, time and name present whose time fails the hours
\* check returns need_more and asks for the time again, with no free/busy query,
\* no event and no pending offer set, and keeps service and name; and a turn on a
\* memory with service and name that resolves a free time within hours is booked.
C10_OutsideHoursAsksTimeAgain ==
    [][ \A u \in Users :
          (TurnStep /\ last'.user = u /\ last'.res.path = "normal") =>
            LET r == last'.res
                before == LivePre(u, last'.gap)
                fresh == FreshTime(last')
            IN  /\ (r.hours /\ ~WithinHours(r.dt[1], APPT_MINUTES)) =>
                     /\ r.status = "need_more"
                     /\ r.msg_key = "ask_time" /\ r.voice = "outside_hours"
                     /\ r.queries = 0 /\ r.created = <<>>
                     /\ CONV'[u].pending = (IF before = Nil THEN Nil ELSE before.pending)
                     /\ Truthy(CONV'[u].service) /\ Truthy(CONV'[u].name)
                /\ (before # Nil /\ Truthy(before.service) /\ Truthy(before.name)
                      /\ fresh # NoDt /\ WithinHours(fresh[1], APPT_MINUTES)
                      /\ ~is_slot_busy(fresh[1], fresh[1] + APPT_MINUTES, last'.ora, 0)) =>
                     /\ r.status = "booked"
                     /\ Len(r.created) = 1 /\ r.created[1].start = fresh[1] ]_vars

\* a turn with all three fields present has been turned back for its time
C10_Witness ==
    /\ last # NoTurn /\ last.res.voice = "outside_hours"
    /\ last.res.status = "need_more"
    /\ Truthy(CONV[last.user].service) /\ Truthy(CONV[last.user].name)

\* the candidates X + 30*k, 0 <= k < 48, that lie within hours and that the
\* calendar reports not busy
FreeCandidates(start, dur, ora) ==
    {t \in {start + 30 * k : k \in 0..47} :
        /\ WithinHours(t, dur)
        /\ \/ ora.svc = "none"
           \/ \A iv \in ora.cal : ~(iv[1] < t + dur /\ iv[2] > t)}

\* C11: for a fixed calendar and start X the search returns the same result each
\* time: at most 2 timestamps, strictly increasing, each a candidate X + 30*k with
\* 0 <= k < 48 within hours and not busy, and they are the earliest such
\* candidates.
C11_SlotSearchDeterministicEarliest ==
    (probe.fn = "find_next_two_slots" /\ probe.calls >= 1) =>
        LET free == FreeCandidates(probe.start, probe.dur, probe.ora)
            out == probe.out
        IN  /\ Len(out) <= 2
            /\ \A i \in 1..Len(out) :
                 /\ out[i] \in free
                 /\ Cardinality({t \in free : t < out[i]}) = i - 1
            /\ \A i \in 1..Len(out), j \in 1..Len(out) : i < j => out[i] < out[j]
            /\ probe.calls = 2 => probe.out2 = out

\* 15:10 is taken: the search from 15:10 has twice returned 15:40 and 16:10
C11_Witness ==
    /\ probe.fn = "find_next_two_slots" /\ probe.calls = 2
    /\ probe.start = At(0, 15, 10) /\ probe.dur = APPT_MINUTES /\ probe.ora.cal = CalOne
    /\ probe.ora.svc = "ok"
    /\ probe.out = <<At(0, 15, 40), At(0, 16, 10)>>

\* C12: the search returns what it collected: as many candidates as are free
\* within the scan, up to two; one when exactly one is free.
C12_ScanReturnsWhatItCollected ==
    (probe.fn = "find_next_two_slots" /\ probe.calls >= 1) =>
        LET n == Cardinality(FreeCandidates(probe.start, probe.dur, probe.ora))
        IN  Len(probe.out) = (IF n >= 2 THEN 2 ELSE n)

\* C13: when the calendar is unconfigured or its free/busy query raises,
\* is_slot_busy is false for every interval, and a turn with service, name and an
\* in-hours time is booked at that time: never busy, never recovery, and the
\* pending offer is left as it was.
C13_FailOpenOracleBooks ==
    [][ \A u \in Users :
          (TurnStep /\ last'.user = u /\ last'.res.path = "normal"
             /\ (last'.ora.svc = "none" \/ FbRaises(last'.ora, 0))) =>
            LET r == last'.res
                before == LivePre(u, last'.gap)
            IN  /\ \A t \in SlotStarts, q \in 0..SCAN_STEPS :
                     ~is_slot_busy(t, t + APPT_MINUTES, last'.ora, q)
                /\ r.status \notin {"busy", "recovery"}
                /\ CONV'[u].pending = (IF before = Nil THEN Nil ELSE before.pending)
                /\ (r.hours /\ WithinHours(r.dt[1], APPT_MINUTES)) =>
                     /\ r.status = "booked"
                     /\ Len(r.created) = 1 /\ r.created[1].start = r.dt[1] ]_vars

\* with no calendar configured, 15:10 has been booked although the calendar of the
\* turn holds an appointment at 15:10
C13_Witness ==
    /\ last # NoTurn /\ last.ora.svc = "none" /\ last.ora.cal = CalOne
    /\ last.res.status = "booked" /\ last.res.dt = <<At(0, 15, 10)>>
    /\ Len(last.res.created) = 1

\* a step in which a route takes up a request
RequestStep == req = NoReq /\ req' # NoReq

\* C14: once the identity has a conversation language, a turn on any route whose
\* utterance is exactly "1" or "2" leaves the stored language as it was.
C14_MenuReplyKeepsLanguage ==
    [][ \A u \in Users :
          (TurnStep /\ last'.user = u /\ LivePre(u, last'.gap) # Nil
             /\ Said(last') \in {"1", "2"}) =>
            CONV'[u].lang = CONV[u].lang ]_vars

\* C15: with the client not entitled, a request to /voice/incoming, /voice/intent,
\* /sms/incoming or /whatsapp/incoming is answered with the unavailable message
\* only: handle_user_text does not run and neither the conversation memory nor the
\* call sessions are created or changed.
C15_GateClosedTouchesNothing ==
    [][ (RequestStep /\ ~allowed
           /\ req'.route \in {"voice_incoming", "voice_intent", "sms_incoming",
                              "whatsapp_incoming"}) =>
          /\ req'.reply = "not_available" \/ req'.msgs = <<"not_available">>
          /\ last' = NoTurn
          /\ CONV' = CONV
          /\ CALL_SESSIONS' = CALL_SESSIONS ]_vars

\* C18: an identity's memory is kept from request to request, on every route,
\* while the requests arrive within the TTL: it changes only by a turn, which
\* continues it when at most CONV_TTL_MIN minutes have passed since the last
\* update and replaces it by a fresh record only when more have passed.
C18_MemoryKeptWithinTtl ==
    [][ \A u \in Users :
          (CONV[u] # Nil /\ CONV'[u] # CONV[u]) =>
            /\ TurnStep /\ last'.user = u
            /\ CONV'[u] # Nil
            /\ IF last'.gap > 30
               THEN CONV'[u].history = 1
               ELSE CONV'[u].history = CONV[u].history + 1 ]_vars

\* C19: for one call identifier and one key the message is sent at most once.
C19_OncePerCallAndKey ==
    \A sid \in CallSids, k \in SmsKeys : sent[sid][k] <= 1

\* the memory cannot have led to a booking: service or name is missing
NeverBooked(c) == c = Nil \/ ~Truthy(c.service) \/ ~Truthy(c.name)

\* C20: when a terminal status callback of a call has been served and no booking
\* was made for the caller, the recovery message has been sent exactly once for
\* the call; when a booking was made in the call, the callback sends nothing.
C20_RecoveryOnceUnlessBooked ==
    (req.route = "voice_status"
       /\ req.call_status \in {"completed", "busy", "failed", "no-answer", "canceled"}) =>
        /\ NeverBooked(CONV[norm_user_key(req.from)]) => sent[req.sid]["recovery"] = 1
        /\ sent[req.sid]["msg_booked"] > 0 => req.msgs = <<>>

\* C16: turns of one identity are serialized on the event loop: at most one body
\* is between its read and its write of the memory, and the memory it read is
\* still the stored one; so two replies to the same pending offer never both book
\* it, and two first messages never both find the identity without a record.
C16_SameIdentityTurnsSerialized ==
    \A i \in LoopIds, j \in LoopIds :
        LET a == loop[i]
            b == loop[j]
        IN  /\ a.phase = "running" => a.seen = CONV[a.user]
            /\ (i # j /\ a.phase \in {"running", "done"} /\ b.phase \in {"running", "done"}
                  /\ a.user = b.user) =>
                 /\ ~(a.phase = "running" /\ b.phase = "running")
                 /\ ~(a.seen = Nil /\ b.seen = Nil)
                 /\ ~(a.seen # Nil /\ a.seen = b.seen)
                 /\ (a.phase = "done" /\ b.phase = "done"
                       /\ a.res.path = "offer" /\ b.res.path = "offer") =>
                      a.seen.pending # b.seen.pending

\* both replies "1" to the offer of 15:40 and 16:10 have been served: one booked
\* the offered slot, the other went through the normal path
C16_Witness ==
    /\ loop[1].phase = "done" /\ loop[2].phase = "done"
    /\ loop[1].user = loop[2].user
    /\ loop[1].text = "1" /\ loop[2].text = "1"
    /\ loop[1].res.path = "offer" /\ loop[1].res.status = "booked"
    /\ loop[2].res.path = "normal" /\ loop[2].res.created = <<>>

\* C17: while the turn of one identity waits in a blocking external call, the
\* turn of a different identity that has arrived can start.
C17_OtherIdentityNotBlocked ==
    \A i \in LoopIds, j \in LoopIds :
        (loop[i].phase = "running" /\ loop[j].phase = "accepted"
           /\ loop[i].user # loop[j].user) => ENABLED StartBody(j)

\* C21: a turn whose extractor call raises is completed as with an all-null
\* answer: it returns one of the four statuses, leaves the stored service and name
\* as they were, resolves its time from the utterance alone, and asks for the first
\* field missing from what was known.
C21_ExtractorFailureAbsorbed ==
    [][ \A u \in Users :
          (TurnStep /\ last'.user = u /\ last'.res.path = "normal" /\ last'.data.raises) =>
            LET r == last'.res
                before == LivePre(u, last'.gap)
                service == IF before = Nil THEN None ELSE before.service
                name == IF before = Nil THEN None ELSE before.name
            IN  /\ r.status \in {"need_more", "booked", "busy", "recovery"}
                /\ CONV'[u].service = service /\ CONV'[u].name = name
                /\ r.dt = parse_time_text_to_dt(Lex(Said(last')), TODAY)
                /\ ~Truthy(service) => r.msg_key = "ask_service"
                /\ (Truthy(service) /\ r.dt = NoDt) => r.msg_key = "ask_time"
                /\ (Truthy(service) /\ r.dt # NoDt /\ ~Truthy(name)) =>
                     r.msg_key = "ask_name" ]_vars

\* the extractor raised on a message that named service, name and time: nothing of
\* it reached the memory and the service is asked for
C21_Witness ==
    /\ last # NoTurn /\ last.data.raises /\ last.data.service = "haircut"
    /\ last.res.path = "normal" /\ last.res.status = "need_more"
    /\ last.res.msg_key = "ask_service"
    /\ ~Truthy(CONV[last.user].service) /\ ~Truthy(CONV[last.user].name)

\* C22: with the extractor returning all-nulls on every turn, a conversation that
\* starts from an empty memory reaches status booked.
C22_DegradedReachesBooked ==
    <>(last # NoTurn /\ last.res.status = "booked")

\* what holds instead: every degraded turn asks for the service and stores none
DegradedStuckOnService ==
    /\ \A u \in Users : CONV[u] # Nil => ~Truthy(CONV[u].service) /\ CONV[u].pending = Nil
    /\ last # NoTurn =>
         /\ last.res.status = "need_more" /\ last.res.msg_key = "ask_service"
         /\ last.res.created = <<>>

\* the calendar as the turn would have met it had the write gone through
WriteWorks(ora) ==
    IF ora.svc = "none" THEN Oracle("ok", CalFree, <<>>, FALSE)
                        ELSE [ora EXCEPT !.insFails = FALSE]

WriteFails(ora) == ora.svc = "none" \/ ora.insFails

\* C23: a turn that books while the calendar write fails (calendar unconfigured or
\* the insertion raising) ends exactly as the same turn with a working write: status
\* booked, the confirmed message, the same memory after the turn, on the offer path
\* and on the normal path; the one attempted event was not inserted.
C23_WriteFailureNotSurfaced ==
    [][ \A u \in Users :
          (TurnStep /\ last'.user = u /\ WriteFails(last'.ora)) =>
            LET r == last'.res
                g == handle_user_text(CONV[u], last'.text, last'.lang_hint, last'.data,
                                      WriteWorks(last'.ora), TODAY, last'.gap)
            IN  g.res.status = "booked" =>
                  /\ r.status = "booked" /\ r.msg_key = "confirmed"
                  /\ r.voice = "confirmed" /\ r.path = g.res.path
                  /\ CONV'[u] = g.c
                  /\ Len(r.created) = 1 /\ ~r.created[1].inserted
                  /\ Len(g.res.created) = 1 /\ g.res.created[1].inserted ]_vars

\* an offered slot is booked by the reply 1 or 2 while the insertion raises
C23_Witness ==
    /\ last # NoTurn /\ last.ora.insFails /\ last.res.path = "offer"
    /\ last.res.status = "booked" /\ last.res.msg_key = "confirmed"
    /\ ~last.res.created[1].inserted
    /\ CONV[last.user].pending = Nil /\ Truthy(CONV[last.user].service)

\* the same on the normal path, with no calendar configured
C23_WitnessNormal ==
    /\ last # NoTurn /\ last.ora.svc = "none" /\ last.res.path = "normal"
    /\ last.res.status = "booked" /\ ~last.res.created[1].inserted

\* C24: the cooperative dialogue is booked by its ConvergeTurns-th turn at the
\* latest, in whatever order and combination the fields were stated.
ConvergeTurns == 5

C24_ConvergesWithinBound ==
    \A u \in Users :
        (CONV[u] # Nil /\ CONV[u].history >= ConvergeTurns) =>
            /\ last.res.status = "booked"
            /\ last.res.dt = <<At(0, 15, 10)>>
            /\ Len(last.res.created) = 1

\* the longest way: the service, then the time, then the name, and the time again
C24_Witness ==
    /\ last # NoTurn /\ last.res.status = "booked"
    /\ CONV[last.user].history = ConvergeTurns
    /\ CONV[last.user].service = "haircut" /\ CONV[last.user].name = "John"

\* no cooperative dialogue ends without the booking
C24_NotStuck ==
    ENABLED NextConverge \/ last.res.status = "booked"

Resolved == probe.fn = "resolve" /\ probe.done

\* C25: with no usable ISO suggestion, a message that carries only a time of day
\* (separated by ':', '.' or a space) resolves to the reference date at that time,
\* and a message with no time-of-day pattern resolves to unset.
C25_TimeOnlyResolvesToToday ==
    Resolved =>
        /\ probe.text \in TimeOnlyTexts =>
             probe.out = <<MkDt(probe.today, Lex(probe.text).tod[1],
                                Lex(probe.text).tod[2])>>
        /\ probe.text \in NoTimeTexts => probe.out = NoDt

\* what holds instead: the claim, for the separators ':' and space
TimeOnlyColonOrSpace ==
    Resolved =>
        /\ probe.text \in TimeOnlyTexts \ {"15.10", "9.30"} =>
             probe.out = <<MkDt(probe.today, Lex(probe.text).tod[1],
                                Lex(probe.text).tod[2])>>
        /\ probe.text \in NoTimeTexts => probe.out = NoDt
        /\ probe.text = "15.10" => probe.out = <<MkDt(DayNum(2026, 10, 15), 15, 10)>>
        /\ probe.text = "9.30" => probe.out = NoDt

\* C26: a message that names a weekday resolves to a date with that weekday, one to
\* seven days after the reference date (seven when it is the reference date's own
\* weekday), and seven days more when the message has a "next" qualifier.
C26_WeekdayStrictlyAhead ==
    Resolved =>
        \A q \in {""} \cup NextQualifiers :
            NamesWeekday(probe.text, q) =>
                LET wd == WeekdayNamed(probe.text, q)
                    ahead == IF Weekday(probe.today) = wd
                             THEN 7 ELSE (wd - Weekday(probe.today)) % 7
                    shift == IF q = "" THEN 0 ELSE 7
                IN  /\ probe.out # NoDt
                    /\ Weekday(DayOf(probe.out[1])) = wd
                    /\ DayOf(probe.out[1]) = probe.today + ahead + shift
                    /\ MinuteOfDay(probe.out[1]) = 10 * 60

\* what holds instead: a message that begins with "next" gets no further week
WeekdayAheadNextNotLeading ==
    Resolved =>
        \A q \in {""} \cup NextQualifiers :
            NamesWeekday(probe.text, q) =>
                LET wd == WeekdayNamed(probe.text, q)
                    ahead == IF Weekday(probe.today) = wd
                             THEN 7 ELSE (wd - Weekday(probe.today)) % 7
                    shift == IF q = "on next " THEN 7 ELSE 0
                IN  probe.out = <<MkDt(probe.today + ahead + shift, 10, 0)>>

\* C27: a turn calls create_calendar_event exactly once when its status is booked
\* and not at all when its status is need_more, busy or recovery.
C27_OneEventIffBooked ==
    last # NoTurn =>
        /\ last.res.status \in {"booked", "need_more", "busy", "recovery"}
        /\ last.res.status = "booked" =>
             /\ Len(last.res.created) = 1
             /\ last.res.created[1].start = last.res.dt[1]
             /\ last.res.created[1].end = last.res.dt[1] + APPT_MINUTES
        /\ last.res.status # "booked" => last.res.created = <<>>

\* a booked turn on the normal path after its free/busy query, with its one event
C27_Witness ==
    /\ last # NoTurn /\ last.res.status = "booked" /\ last.res.path = "normal"
    /\ last.res.queries = 1 /\ Len(last.res.created) = 1
    /\ last.res.created[1].inserted

\* a busy turn: the search made its queries and no event was created
C27_WitnessBusy ==
    /\ last # NoTurn /\ last.res.status = "busy" /\ last.res.queries > 1
    /\ last.res.created = <<>>

\* an offer as the claim describes it, for the requested start and the calendar of
\* the turn that made it
ReportedFree(dt, ora) ==
    \E q \in 1..SCAN_STEPS : ~is_slot_busy(dt, dt + APPT_MINUTES, ora, q)

WellFormedOffer(pending, start, ora) ==
    /\ IsoParses(pending.opt1_iso) /\ IsoParses(pending.opt2_iso)
    /\ LET optA == IsoToLocal(pending.opt1_iso)
           optB == IsoToLocal(pending.opt2_iso)
       IN  /\ optA < optB
           /\ in_business_hours(optA, APPT_MINUTES)
           /\ in_business_hours(optB, APPT_MINUTES)
           /\ optA >= start /\ optB < start + 24 * 60
           /\ ReportedFree(optA, ora) /\ ReportedFree(optB, ora)
    /\ Truthy(pending.service) /\ Truthy(pending.name)

\* C28: a pending offer comes into the memory only by a busy turn of its identity,
\* and is then two distinct options, the first earlier than the second, both within
\* business hours, at or after the requested start and less than 24 hours after it,
\* reported not busy in that turn, with a non-empty service and name; a memory
\* starts without an offer, so every pending offer of a reachable state is such.
C28_PendingOfferWellFormed ==
    [][ \A u \in Users :
          (/\ CONV'[u] # Nil /\ CONV'[u].pending # Nil
           /\ (CONV[u] = Nil \/ CONV'[u].pending # CONV[u].pending)) =>
              /\ TurnStep /\ last'.user = u /\ last'.res.status = "busy"
              /\ WellFormedOffer(CONV'[u].pending, last'.res.dt[1], last'.ora) ]_vars

\* an offer whose first option is the requested start itself: the second query
\* of the turn raised and was taken for free
C28_Witness ==
    /\ last # NoTurn /\ last.res.status = "busy"
    /\ CONV[last.user].pending # Nil
    /\ IsoToLocal(CONV[last.user].pending.opt1_iso) = last.res.dt[1]
    /\ WellFormedOffer(CONV[last.user].pending, last.res.dt[1], last.ora)

\* the same shape in every state, with no reference to the turn
PendingShape ==
    \A u \in Users :
        (CONV[u] # Nil /\ CONV[u].pending # Nil) =>
            LET optA == IsoToLocal(CONV[u].pending.opt1_iso)
                optB == IsoToLocal(CONV[u].pending.opt2_iso)
            IN  /\ optA < optB
                /\ in_business_hours(optA, APPT_MINUTES)
                /\ in_business_hours(optB, APPT_MINUTES)
                /\ Truthy(CONV[u].pending.service) /\ Truthy(CONV[u].pending.name)

\* C29: a turn that answers a pending offer with 1 or 2 makes no free/busy query
\* and no business-hours check and creates the event for the stored option, also
\* when the calendar of that turn reports the option busy.
C29_OfferChoiceNotRechecked ==
    [][ \A u \in Users :
          (/\ TurnStep /\ last'.user = u
           /\ LivePre(u, last'.gap) # Nil
           /\ TakesOfferPath(Said(last'), LivePre(u, last'.gap))) =>
            LET r == last'.res
                pending == LivePre(u, last'.gap).pending
                slot == IsoToLocal(IF Said(last') = "1" THEN pending.opt1_iso
                                                       ELSE pending.opt2_iso)
            IN  /\ r.path = "offer" /\ r.queries = 0 /\ ~r.hours
                /\ r.status = "booked" /\ r.dt = <<slot>>
                /\ Len(r.created) = 1 /\ r.created[1].start = slot
                /\ CONV'[u].pending = Nil ]_vars

\* option 2 is booked while the calendar reports it busy
C29_Witness ==
    /\ last # NoTurn /\ last.res.path = "offer" /\ last.res.status = "booked"
    /\ Said(last) = "2" /\ last.res.queries = 0
    /\ last.ora.svc = "ok" /\ last.ora.failFrom = <<>>
    /\ is_slot_busy(last.res.dt[1], last.res.dt[1] + APPT_MINUTES, last.ora, 0)
    /\ last.res.created[1].inserted

C31_TurnTouchesOwnRecordOnly ==
    [][ (last = NoTurn /\ last' # NoTurn) =>
          /\ \A B \in FrameUsers \ {last'.user} : CONV'[B] = CONV[B]
          /\ CONV'[last'.user] # Nil
          /\ CONV'[last'.user].history >= 1
          /\ DOMAIN CONV' = DOMAIN CONV
          /\ CALL_SESSIONS' = CALL_SESSIONS /\ sent' = sent ]_vars

\* a turn of one identity has ended in an offer while two other identities hold
\* memories of their own, one of them with a pending offer, and a call session
\* with a language and a send-once flag exists
C31_Witness ==
    /\ last # NoTurn /\ last.user = "+37120000002" /\ last.res.status = "busy"
    /\ CONV["+37120000001"] # Nil /\ CONV["+37120000001"].pending # Nil
    /\ CONV["unknown"] # Nil /\ CONV["unknown"].service = "haircut"
    /\ CONV["unknown"].pending = Nil
    /\ CALL_SESSIONS["CA1"] # Nil /\ CALL_SESSIONS["CA1"].sms_flags = {"msg_busy"}

=============================================================================
